---- MODULE Spec2Model ----
(***************************************************************************)
(* A model of the runC runtime wrapper of opengcs                          *)
(* (service/gcs/runtime/runc): the process-state reconciliation queries    *)
(* GetRunningProcesses / GetAllProcesses, container.Delete,                *)
(* StdioPipes.Close, the console-socket receive getMasterFromSocket,       *)
(* container.Wait, NewConsole, and runCreateCommand / runExecCommand with  *)
(* startProcess, the invocation of runc and the goroutine of the receive.  *)
(*                                                                         *)
(* File names are sequences of one-character strings, so that strconv.Atoi *)
(* and the name order of ioutil.ReadDir are computed character by          *)
(* character, as the library computes them.                                *)
(***************************************************************************)
EXTENDS Integers, Sequences, FiniteSets, TLC

\* ------------------------------------------------------------------ bounds

\* Pids of the model are 1..MaxPid.
MaxPid == 2

\* Pids the host can hold.
Pids == 1..MaxPid

\* Calls of StdioPipes.Close on one StdioPipes.
MaxCloseCalls == 6

\* Control messages a received message carries, and descriptors a control
\* message carries.
MaxMsgs == 2
MaxFds == 2

\* Calls of NewConsole that open a master.
MaxConsoles == 3

\* ------------------------------------------------------------------- state

VARIABLES
  toolPs,          \* what "runc ps -f json <id>" answers: [ok, pids]
  containerDir,    \* /var/lib/gcsrunc/<id>: NoDir, or DirOf(its entries)
  osPids,          \* the pids that exist under /proc
  cmdlineFail,     \* the pids whose /proc/<pid>/cmdline cannot be read
  runningView,     \* what the last GetRunningProcesses returned
  allView,         \* what the last GetAllProcesses returned
  deleteRes,       \* what the last container.Delete returned
  pipes,           \* a *StdioPipes: nil, or its four members
  pipes0,          \* the members it was made with
  closeCount,      \* how often each underlying stream has been closed
  closeCalls,      \* the calls of Close so far
  lastClose,       \* what the last Close closed and returned
  sockIn,          \* what the console socket delivered to the receive
  sockRes,         \* what getMasterFromSocket returned
  initPid,         \* c.p.pid of the container whose Wait is called
  waitFail,        \* the pids on which os.FindProcess or Process.Wait fails
  waitLog,         \* the pids container.Wait has waited on, in order
  waitRes,         \* what container.Wait returned
  ptys,            \* the pseudoterminals NewConsole has opened, in order
  consoleRes,      \* what the last NewConsole returned
  op,              \* the call in flight: "create" or "exec"
  hasTerminal,     \* does the process of the call ask for a terminal
  toolPlan,        \* how the invocation of runc behaves in this run
  mainPc,          \* where the caller of create/exec stands
  mainLog,         \* the steps of startProcess that have succeeded, in order
  tempDir,         \* the temporary process directory of the call
  jsonOpen,        \* is the descriptor of process.json open
  listener,        \* the console socket's listener
  wire,            \* the connection of the tool to the console socket
  recv,            \* the goroutine running setupIOForTerminal
  tool,            \* the invocation of runc
  startRes,        \* what startProcess returned
  opRes            \* what runCreateCommand / runExecCommand returned

reconVars == <<toolPs, containerDir, osPids, cmdlineFail, runningView, allView,
               deleteRes>>
pipesVars == <<pipes, pipes0, closeCount, closeCalls, lastClose>>
sockVars == <<sockIn, sockRes>>
waitVars == <<initPid, waitFail, waitLog, waitRes>>

consoleVars == <<ptys, consoleRes>>

planVars == <<op, hasTerminal, toolPlan>>
startVars == <<planVars, mainPc, mainLog, tempDir, jsonOpen, listener, wire,
               recv, tool, startRes, opRes>>

vars == <<reconVars, pipesVars, sockVars, waitVars, consoleVars, startVars>>

\* ------------------------------------------------------ values and helpers

\* The absent value: a nil pointer.
NIL == "nil"
\* The nil error.
NoErr == "ok"
\* The container directory /var/lib/gcsrunc/<id>: absent, or its entries.
NoDir == [exists |-> FALSE, entries |-> {}]
DirOf(names) == [exists |-> TRUE, entries |-> names]

\* runc.go:27
initPidFilename == <<"i", "n", "i", "t", "p", "i", "d">>

\* The byte value of a character of a file name (ASCII).
Ord(c) ==
  CASE c = "+" -> 43 [] c = "-" -> 45
    [] c = "0" -> 48 [] c = "1" -> 49 [] c = "2" -> 50 [] c = "3" -> 51
    [] c = "4" -> 52 [] c = "5" -> 53 [] c = "6" -> 54 [] c = "7" -> 55
    [] c = "8" -> 56 [] c = "9" -> 57
    [] c = "a" -> 97 [] c = "b" -> 98 [] c = "c" -> 99 [] c = "d" -> 100
    [] c = "i" -> 105 [] c = "n" -> 110 [] c = "p" -> 112 [] c = "t" -> 116

IsDigit(c) == Ord(c) >= 48 /\ Ord(c) <= 57

DigitChars == <<"0", "1", "2", "3", "4", "5", "6", "7", "8", "9">>

\* strconv.Itoa for n >= 0: the decimal digits, most significant first.
RECURSIVE Itoa(_)
Itoa(n) ==
  IF n < 10 THEN <<DigitChars[n + 1]>>
  ELSE Itoa(n \div 10) \o <<DigitChars[(n % 10) + 1]>>

\* The value of a string of decimal digits (the accumulation loop of
\* strconv.ParseInt in base 10).
RECURSIVE DigitsValue(_, _)
DigitsValue(s, acc) ==
  IF s = <<>> THEN acc
  ELSE DigitsValue(Tail(s), acc * 10 + (Ord(Head(s)) - 48))

\* strconv.Atoi: an optional sign, then one or more decimal digits; anything
\* else is a syntax error.  (The names of the model are far too short for the
\* range error of a 64-bit int.)
Atoi(s) ==
  LET signed == s # <<>> /\ Head(s) \in {"+", "-"}
      body == IF signed THEN Tail(s) ELSE s
  IN IF body = <<>> \/ \E i \in 1..Len(body) : ~IsDigit(body[i])
       THEN [err |-> TRUE, val |-> 0]
       ELSE [err |-> FALSE,
             val |-> IF signed /\ Head(s) = "-"
                       THEN 0 - DigitsValue(body, 0)
                       ELSE DigitsValue(body, 0)]

\* Byte-wise order of two file names (Go's string <).
RECURSIVE NameLess(_, _)
NameLess(a, b) ==
  IF a = <<>> THEN b # <<>>
  ELSE IF b = <<>> THEN FALSE
  ELSE IF Head(a) = Head(b) THEN NameLess(Tail(a), Tail(b))
  ELSE Ord(Head(a)) < Ord(Head(b))

\* The names of a directory in the order ioutil.ReadDir lists them: sorted by
\* file name.
RECURSIVE SortNames(_)
SortNames(S) ==
  IF S = {} THEN <<>>
  ELSE LET m == CHOOSE x \in S : \A y \in S \ {x} : NameLess(x, y)
       IN <<m>> \o SortNames(S \ {m})

\* A set of integers as the ascending sequence of its elements.
RECURSIVE Ascending(_)
Ascending(S) ==
  IF S = {} THEN <<>>
  ELSE LET m == CHOOSE x \in S : \A y \in S : x <= y
       IN <<m>> \o Ascending(S \ {m})

\* --------------------------------------------------- process reconciliation

ErrPs == "runc ps failed"
ErrCmdline == "failed to read cmdline file for process"
ErrReadDir == "failed to read the contents of container directory"
ErrParsePid == "failed to parse string as pid"

\* The names a container directory can hold in the model: one directory per
\* pid, the reserved initpid file, a name that is neither ("1a" sorts
\* between "1" and "2", so it can be first, in the middle or last), and a
\* second name that strconv.Atoi reads as pid 1.
BadName == <<"1", "a">>
SignedName == <<"+", "1">>
DirNames == {Itoa(p) : p \in Pids} \cup {initPidFilename, BadName, SignedName}

\* getRunningPids: the pids runC reports as running, or the tool's failure.
getRunningPids ==
  IF toolPs.ok THEN [err |-> NoErr, pids |-> Ascending(toolPs.pids)]
  ELSE [err |-> ErrPs, pids |-> <<>>]

\* The command line of a pid, as read from /proc/<pid>/cmdline.
CmdlineOf(pid) == <<"cmd", pid>>

\* Mutant of getProcessCommand: the read failure is dropped and an empty
\* command returned.
getProcessCommandIgnoreError(pid) ==
  IF pid \in cmdlineFail THEN [err |-> NoErr, command |-> <<>>]
  ELSE [err |-> NoErr, command |-> CmdlineOf(pid)]

\* getProcessCommand: the command line of the pid, or the read failure.
getProcessCommand(pid) ==
  IF pid \in cmdlineFail THEN [err |-> ErrCmdline, command |-> <<>>]
  ELSE [err |-> NoErr, command |-> CmdlineOf(pid)]

\* processExists: whether the OS still holds the pid.
processExists(pid) == pid \in osPids

\* ioutil.ReadDir of the container directory: the entries sorted by name.
ReadDir(dir) ==
  IF ~dir.exists THEN [err |-> ErrReadDir, names |-> <<>>]
  ELSE [err |-> NoErr, names |-> SortNames(dir.entries)]

\* runtime.ContainerProcessState
ProcessState(pid, command, created, zombie) ==
  [Pid |-> pid, Command |-> command, CreatedByRuntime |-> created,
   IsZombie |-> zombie]

\* pidMap[pid] = v
MapSet(pidMap, pid, v) == (pid :> v) @@ pidMap

\* The seeding loop of both queries: every running pid with its command,
\* CreatedByRuntime and IsZombie false; the first failed lookup ends the query.
RECURSIVE seedPidMap(_, _)
seedPidMap(pids, pidMap) ==
  IF pids = <<>> THEN [err |-> NoErr, pidMap |-> pidMap]
  ELSE LET pid == Head(pids)
           c == getProcessCommand(pid)
       IN IF c.err # NoErr THEN [err |-> c.err, pidMap |-> pidMap]
          ELSE seedPidMap(Tail(pids),
                          MapSet(pidMap, pid,
                                 ProcessState(pid, c.command, FALSE, FALSE)))

\* Mutant of runningDirEntry: a directory's pid is entered in the map without
\* the test that it is already there.
runningDirEntryNoLookup(pidMap, name) ==
  IF name # initPidFilename
    THEN LET a == Atoi(name)
         IN IF a.err THEN [err |-> ErrParsePid, pidMap |-> pidMap]
            ELSE [err |-> NoErr,
                  pidMap |-> MapSet(pidMap, a.val,
                               ProcessState(a.val, <<>>, TRUE, FALSE))]
    ELSE [err |-> NoErr, pidMap |-> pidMap]

\* Mutant of runningDirEntry: a name that does not parse is passed over.
runningDirEntrySkipBad(pidMap, name) ==
  IF name # initPidFilename
    THEN LET a == Atoi(name)
         IN IF a.err THEN [err |-> NoErr, pidMap |-> pidMap]
            ELSE IF a.val \in DOMAIN pidMap
              THEN [err |-> NoErr,
                    pidMap |-> [pidMap EXCEPT ![a.val].CreatedByRuntime = TRUE]]
              ELSE [err |-> NoErr, pidMap |-> pidMap]
    ELSE [err |-> NoErr, pidMap |-> pidMap]

\* Mutant of allDirEntry: a pid of the directory that runC does not report is
\* never entered as a zombie.
allDirEntryNoZombie(pidMap, name) ==
  IF name # initPidFilename
    THEN LET a == Atoi(name)
         IN IF a.err THEN [err |-> ErrParsePid, pidMap |-> pidMap]
            ELSE IF processExists(a.val) /\ a.val \in DOMAIN pidMap
              THEN [err |-> NoErr,
                    pidMap |-> [pidMap EXCEPT ![a.val].CreatedByRuntime = TRUE]]
              ELSE [err |-> NoErr, pidMap |-> pidMap]
    ELSE [err |-> NoErr, pidMap |-> pidMap]

\* The body of GetRunningProcesses' loop over the directory entries.
runningDirEntry(pidMap, name) ==
  IF name # initPidFilename
    THEN LET a == Atoi(name)
         IN IF a.err THEN [err |-> ErrParsePid, pidMap |-> pidMap]
            ELSE IF a.val \in DOMAIN pidMap
              THEN [err |-> NoErr,
                    pidMap |-> [pidMap EXCEPT ![a.val].CreatedByRuntime = TRUE]]
              ELSE [err |-> NoErr, pidMap |-> pidMap]
    ELSE [err |-> NoErr, pidMap |-> pidMap]

\* The body of GetAllProcesses' loop over the directory entries.
allDirEntry(pidMap, name) ==
  IF name # initPidFilename
    THEN LET a == Atoi(name)
         IN IF a.err THEN [err |-> ErrParsePid, pidMap |-> pidMap]
            ELSE IF processExists(a.val)
              THEN IF a.val \in DOMAIN pidMap
                     THEN [err |-> NoErr,
                           pidMap |-> [pidMap EXCEPT
                                         ![a.val].CreatedByRuntime = TRUE]]
                     ELSE LET c == getProcessCommand(a.val)
                          IN IF c.err # NoErr
                               THEN [err |-> c.err, pidMap |-> pidMap]
                               ELSE [err |-> NoErr,
                                     pidMap |-> MapSet(pidMap, a.val,
                                       ProcessState(a.val, c.command,
                                                    TRUE, TRUE))]
              ELSE [err |-> NoErr, pidMap |-> pidMap]
    ELSE [err |-> NoErr, pidMap |-> pidMap]

\* GetRunningProcesses' loop over the listing; the first error ends it.
RECURSIVE runningDirLoop(_, _)
runningDirLoop(names, pidMap) ==
  IF names = <<>> THEN [err |-> NoErr, pidMap |-> pidMap]
  ELSE LET r == runningDirEntry(pidMap, Head(names))
       IN IF r.err # NoErr THEN r ELSE runningDirLoop(Tail(names), r.pidMap)

\* GetAllProcesses' loop over the listing; the first error ends it.
RECURSIVE allDirLoop(_, _)
allDirLoop(names, pidMap) ==
  IF names = <<>> THEN [err |-> NoErr, pidMap |-> pidMap]
  ELSE LET r == allDirEntry(pidMap, Head(names))
       IN IF r.err # NoErr THEN r ELSE allDirLoop(Tail(names), r.pidMap)

\* pidMapToProcessStates: one slice element per key of the map.  Go leaves the
\* order of a map's keys open; the model lists them by ascending pid, and no
\* formula below reads the order.
pidMapToProcessStates(pidMap) ==
  LET keys == Ascending(DOMAIN pidMap)
  IN [i \in 1..Len(keys) |-> pidMap[keys[i]]]

EmptyPidMap == [p \in {} |-> NIL]

\* What a query returns: an error and the nil slice, or the list.
QueryError(e) == [err |-> e, procs |-> <<>>]
QueryOk(pidMap) == [err |-> NoErr, procs |-> pidMapToProcessStates(pidMap)]

\* container.GetRunningProcesses, as a function of the state it reads.
GetRunningProcessesResult ==
  LET ps == getRunningPids
  IN IF ps.err # NoErr THEN QueryError(ps.err)
     ELSE LET seed == seedPidMap(ps.pids, EmptyPidMap)
          IN IF seed.err # NoErr THEN QueryError(seed.err)
             ELSE LET ls == ReadDir(containerDir)
                  IN IF ls.err # NoErr THEN QueryError(ls.err)
                     ELSE LET r == runningDirLoop(ls.names, seed.pidMap)
                          IN IF r.err # NoErr THEN QueryError(r.err)
                             ELSE QueryOk(r.pidMap)

\* container.GetAllProcesses, as a function of the state it reads.
GetAllProcessesResult ==
  LET ps == getRunningPids
  IN IF ps.err # NoErr THEN QueryError(ps.err)
     ELSE LET seed == seedPidMap(ps.pids, EmptyPidMap)
          IN IF seed.err # NoErr THEN QueryError(seed.err)
             ELSE LET ls == ReadDir(containerDir)
                  IN IF ls.err # NoErr THEN QueryError(ls.err)
                     ELSE LET r == allDirLoop(ls.names, seed.pidMap)
                          IN IF r.err # NoErr THEN QueryError(r.err)
                             ELSE QueryOk(r.pidMap)

\* A returned view, with the directory the query read.
View(res) ==
  [called |-> TRUE, dir |-> containerDir, err |-> res.err, procs |-> res.procs]

\* No query has returned yet.
NotCalled == [called |-> FALSE, dir |-> NoDir, err |-> NoErr, procs |-> <<>>]

GetRunningProcesses ==
  /\ runningView' = View(GetRunningProcessesResult)
  /\ UNCHANGED <<toolPs, containerDir, osPids, cmdlineFail, allView, deleteRes>>
  /\ UNCHANGED <<pipesVars, sockVars, waitVars, consoleVars, startVars>>

GetAllProcesses ==
  /\ allView' = View(GetAllProcessesResult)
  /\ UNCHANGED <<toolPs, containerDir, osPids, cmdlineFail, runningView,
                 deleteRes>>
  /\ UNCHANGED <<pipesVars, sockVars, waitVars, consoleVars, startVars>>

\* ------------------------------------------------------------------ delete

ErrRuncDelete == "runc delete failed"

\* cleanupContainer: removes the container's directory under
\* /var/lib/gcsrunc with everything in it.
cleanupContainer(dir) == [err |-> NoErr, dir |-> NoDir]

\* container.Delete: "runc delete <id>", then the removal of the container's
\* files.  toolFails: the tool's invocation exits non-zero.
Delete(toolFails) ==
  /\ IF toolFails
       THEN /\ deleteRes' = [called |-> TRUE, err |-> ErrRuncDelete]
            /\ UNCHANGED containerDir
       ELSE LET c == cleanupContainer(containerDir)
            IN /\ containerDir' = c.dir
               /\ deleteRes' = [called |-> TRUE, err |-> c.err]
  /\ UNCHANGED <<toolPs, osPids, cmdlineFail, runningView, allView>>
  /\ UNCHANGED <<pipesVars, sockVars, waitVars, consoleVars, startVars>>

\* -------------------------------------------------------------- StdioPipes

Members == {"In", "Out", "Err", "Pty"}

\* The stream behind a member: each member has a stream of its own.
StreamOf(m) == m

\* A *StdioPipes: the nil pointer, or the struct with the members of `set`.
NilPipes == [nil |-> TRUE, In |-> NIL, Out |-> NIL, Err |-> NIL, Pty |-> NIL]
PipesOf(set) ==
  [nil |-> FALSE,
   In  |-> IF "In" \in set THEN StreamOf("In") ELSE NIL,
   Out |-> IF "Out" \in set THEN StreamOf("Out") ELSE NIL,
   Err |-> IF "Err" \in set THEN StreamOf("Err") ELSE NIL,
   Pty |-> IF "Pty" \in set THEN StreamOf("Pty") ELSE NIL]

\* Mutant of closeIn: the stream is closed and the member left in place.
closeInKeepMember(st) ==
  IF st.pipes.In # NIL
    THEN [pipes |-> st.pipes, closes |-> Append(st.closes, st.pipes.In)]
    ELSE st

\* if pipes.In != nil { pipes.In.Close(); pipes.In = nil }
closeIn(st) ==
  IF st.pipes.In # NIL
    THEN [pipes |-> [st.pipes EXCEPT !.In = NIL],
          closes |-> Append(st.closes, st.pipes.In)]
    ELSE st

\* if pipes.Out != nil { pipes.Out.Close(); pipes.Out = nil }
closeOut(st) ==
  IF st.pipes.Out # NIL
    THEN [pipes |-> [st.pipes EXCEPT !.Out = NIL],
          closes |-> Append(st.closes, st.pipes.Out)]
    ELSE st

\* if pipes.Err != nil { pipes.Err.Close(); pipes.Err = nil }
closeErr(st) ==
  IF st.pipes.Err # NIL
    THEN [pipes |-> [st.pipes EXCEPT !.Err = NIL],
          closes |-> Append(st.closes, st.pipes.Err)]
    ELSE st

\* if pipes.Pty != nil { pipes.Pty.Close(); pipes.Pty = nil }
closePty(st) ==
  IF st.pipes.Pty # NIL
    THEN [pipes |-> [st.pipes EXCEPT !.Pty = NIL],
          closes |-> Append(st.closes, st.pipes.Pty)]
    ELSE st

\* StdioPipes.Close: the struct afterwards, the streams closed in order, and
\* the returned error.
CloseResult(p) ==
  IF p.nil THEN [pipes |-> p, closes |-> <<>>, ret |-> NoErr]
  ELSE LET st == closePty(closeErr(closeOut(closeIn(
                   [pipes |-> p, closes |-> <<>>]))))
       IN [pipes |-> st.pipes, closes |-> st.closes, ret |-> NoErr]

\* How often stream s occurs in a sequence of closed streams.
Occurrences(closes, s) == Cardinality({i \in 1..Len(closes) : closes[i] = s})

Close ==
  /\ closeCalls < MaxCloseCalls
  /\ LET r == CloseResult(pipes)
     IN /\ pipes' = r.pipes
        /\ closeCount' = [s \in Members |->
                            closeCount[s] + Occurrences(r.closes, s)]
        /\ lastClose' = [closes |-> r.closes, ret |-> r.ret]
  /\ closeCalls' = closeCalls + 1
  /\ UNCHANGED pipes0
  /\ UNCHANGED <<reconVars, sockVars, waitVars, consoleVars, startVars>>

\* ---------------------------------------------------------- console socket

\* ioutils.go:46
maxNameLen == 4096

\* unix.CmsgSpace on linux/amd64: the control-message header is 16 bytes and
\* header and data are each padded to the 8-byte word.
SizeofCmsghdr == 16
SizeofPtr == 8
cmsgAlignOf(salen) == ((salen + SizeofPtr - 1) \div SizeofPtr) * SizeofPtr
CmsgSpace(datalen) == cmsgAlignOf(SizeofCmsghdr) + cmsgAlignOf(datalen)
CmsgLen(datalen) == cmsgAlignOf(SizeofCmsghdr) + datalen

\* var oobSpace = unix.CmsgSpace(4)
oobSpace == CmsgSpace(4)

ErrAccept == "failed to get terminal master file descriptor from socket"
ErrRead == "failed to read message from unix socket"
ErrInvalidBytes == "read an invalid number of bytes (n oobn)"
ErrParseControl == "failed to parse socket control message for oob"
ErrNoControl == "did not receive any socket control messages"
ErrManyControl == "received more than one socket control message"
ErrParseRights == "failed to parse file descriptors out of message"
ErrNoFds == "did not receive any file descriptors"
ErrManyFds == "received more than one file descriptor"

\* A *os.File: nil, or the file wrapping a descriptor under a name.
NilFile == [valid |-> FALSE, fd |-> 0, name |-> <<>>]
\* os.NewFile(fd, name)
NewFile(fd, name) == [valid |-> TRUE, fd |-> fd, name |-> name]

\* The descriptors a peer passes are the first of 3, 4, 5, ...
FdList(k) == [i \in 1..k |-> 2 + i]

\* The control messages unix.ParseSocketControlMessage can return: one that
\* is not SCM_RIGHTS, or an SCM_RIGHTS message with 0..MaxFds descriptors.
ControlMsgs ==
  {[rights |-> FALSE, fds |-> <<>>]}
    \cup {[rights |-> TRUE, fds |-> FdList(k)] : k \in 0..MaxFds}

RECURSIVE SeqsUpTo(_, _)
SeqsUpTo(S, k) ==
  IF k = 0 THEN {<<>>}
  ELSE LET shorter == SeqsUpTo(S, k - 1)
       IN shorter \cup {Append(q, x) : q \in {r \in shorter : Len(r) = k - 1},
                                        x \in S}

\* The name payloads a peer sends: the first payloadLen bytes of one of two
\* byte streams, "upper" and "lower".
PayloadLens == {0, 3, maxNameLen - 1, maxNameLen, maxNameLen + 1}
UpperStream == [i \in 1..(maxNameLen + 1) |-> 65 + (i % 7)]
LowerStream == [i \in 1..(maxNameLen + 1) |-> 97 + (i % 5)]
Payload(in) ==
  SubSeq(IF in.fill = "upper" THEN UpperStream ELSE LowerStream,
         1, in.payloadLen)

\* make([]byte, maxNameLen)
NameBuffer == [i \in 1..maxNameLen |-> 0]

\* What the socket can deliver: a failed Accept, a failed read, or a message
\* of payloadLen name bytes and oobn bytes of ancillary data that parses (or
\* fails to parse) into the control messages msgs.
SockMessages ==
  [acceptErr : {FALSE}, readErr : {FALSE}, payloadLen : PayloadLens,
   fill : {"upper", "lower"}, oobn : {0, CmsgLen(4), oobSpace}, parseErr : BOOLEAN,
   msgs : SeqsUpTo(ControlMsgs, MaxMsgs)]
SockFailures ==
  [acceptErr : {TRUE}, readErr : {FALSE}, payloadLen : {0}, fill : {"upper"},
   oobn : {0}, parseErr : {FALSE}, msgs : {<<>>}]
    \cup [acceptErr : {FALSE}, readErr : {TRUE}, payloadLen : {0}, fill : {"upper"},
          oobn : {0}, parseErr : {FALSE}, msgs : {<<>>}]
SockInputs == SockMessages \cup SockFailures

\* unixConn.ReadMsgUnix(name, oob): the payload is copied into the name
\* buffer as far as it fits; n is the number of bytes copied.
ReadMsgUnix(in, name) ==
  LET n == IF in.payloadLen < Len(name) THEN in.payloadLen ELSE Len(name)
  IN [err |-> IF in.readErr THEN ErrRead ELSE NoErr,
      n |-> n,
      oobn |-> in.oobn,
      name |-> SubSeq(Payload(in), 1, n) \o SubSeq(name, n + 1, Len(name))]

\* unix.ParseSocketControlMessage(oob)
ParseSocketControlMessage(in) ==
  IF in.parseErr THEN [err |-> ErrParseControl, messages |-> <<>>]
  ELSE [err |-> NoErr, messages |-> in.msgs]

\* unix.ParseUnixRights(&message)
ParseUnixRights(message) ==
  IF ~message.rights THEN [err |-> ErrParseRights, fds |-> <<>>]
  ELSE [err |-> NoErr, fds |-> message.fds]

\* Mutant of sizesValid: the name bound is taken one too high.
sizesValidOffByOne(n, oobn) == ~(n > maxNameLen \/ oobn # oobSpace)

\* The negation of: n >= maxNameLen || oobn != oobSpace
sizesValid(n, oobn) == ~(n >= maxNameLen \/ oobn # oobSpace)

\* Mutant of controlMessagesError: the count is not tested for more than one.
controlMessagesErrorFirstOnly(messages) ==
  IF Len(messages) = 0 THEN ErrNoControl ELSE NoErr

\* The tests of len(messages).
controlMessagesError(messages) ==
  IF Len(messages) = 0 THEN ErrNoControl
  ELSE IF Len(messages) > 1 THEN ErrManyControl
  ELSE NoErr

\* The tests of len(fds).
descriptorsError(fds) ==
  IF Len(fds) = 0 THEN ErrNoFds
  ELSE IF Len(fds) > 1 THEN ErrManyFds
  ELSE NoErr

\* Mutant of truncateName: the whole buffer is kept.
truncateNameNot(name, n) == name

\* name = name[:n]
truncateName(name, n) == SubSeq(name, 1, n)

\* Mutant of MasterResult: the connection is closed on the successful return
\* only.
MasterResultCloseOnSuccess(err, file, accepted, parsed) ==
  [called |-> TRUE, err |-> err, file |-> file, accepted |-> accepted,
   connClosed |-> accepted /\ err = NoErr, parsed |-> parsed]

\* What getMasterFromSocket returns, with what it did on the way: whether it
\* accepted a connection, whether that connection was closed on return (the
\* deferred conn.Close), and whether it parsed the ancillary data.
MasterResult(err, file, accepted, parsed) ==
  [called |-> TRUE, err |-> err, file |-> file, accepted |-> accepted,
   connClosed |-> accepted, parsed |-> parsed]

\* getMasterFromSocket, as a function of what the socket delivers.  (The
\* connection a UnixListener accepts is always a *net.UnixConn.)
GetMasterResult(in) ==
  IF in.acceptErr THEN MasterResult(ErrAccept, NilFile, FALSE, FALSE)
  ELSE LET rd == ReadMsgUnix(in, NameBuffer)
       IN IF rd.err # NoErr THEN MasterResult(rd.err, NilFile, TRUE, FALSE)
          ELSE IF ~sizesValid(rd.n, rd.oobn)
            THEN MasterResult(ErrInvalidBytes, NilFile, TRUE, FALSE)
          ELSE LET name == truncateName(rd.name, rd.n)
                   pm == ParseSocketControlMessage(in)
               IN IF pm.err # NoErr
                    THEN MasterResult(pm.err, NilFile, TRUE, TRUE)
                  ELSE IF controlMessagesError(pm.messages) # NoErr
                    THEN MasterResult(controlMessagesError(pm.messages),
                                      NilFile, TRUE, TRUE)
                  ELSE LET pr == ParseUnixRights(pm.messages[1])
                       IN IF pr.err # NoErr
                            THEN MasterResult(pr.err, NilFile, TRUE, TRUE)
                          ELSE IF descriptorsError(pr.fds) # NoErr
                            THEN MasterResult(descriptorsError(pr.fds),
                                              NilFile, TRUE, TRUE)
                          ELSE MasterResult(NoErr, NewFile(pr.fds[1], name),
                                            TRUE, TRUE)

NoSockInput ==
  [acceptErr |-> FALSE, readErr |-> FALSE, payloadLen |-> 0, fill |-> "upper",
   oobn |-> 0, parseErr |-> FALSE, msgs |-> <<>>]

SockNotCalled ==
  [called |-> FALSE, err |-> NoErr, file |-> NilFile, accepted |-> FALSE,
   connClosed |-> FALSE, parsed |-> FALSE]

\* One console-socket session: the receive runs once on its listener.
getMasterFromSocket(in) ==
  /\ ~sockRes.called
  /\ sockIn' = in
  /\ sockRes' = GetMasterResult(in)
  /\ UNCHANGED <<reconVars, pipesVars, waitVars, consoleVars, startVars>>

\* ----------------------------------------------------------- container.Wait

ErrFindProcess == "failed to find process"
ErrWaitProcess == "failed waiting on process"

\* oslayer.ProcessExitState of a waited process: the model keeps whose it is.
NewProcessExitState(pid) == [exited |-> TRUE, pid |-> pid]
NilExitState == [exited |-> FALSE, pid |-> 0]

\* waitOnProcess: os.FindProcess, Process.Wait, the exit state of the process.
waitOnProcess(pid) ==
  IF pid \in waitFail
    THEN [err |-> ErrWaitProcess, state |-> NilExitState]
    ELSE [err |-> NoErr, state |-> NewProcessExitState(pid)]

\* process.Wait of the init process c.p.
initWait == waitOnProcess(initPid)

waitsOnAllButInit(process) == process.Pid # initPid

\* The test of container.Wait's loop: "Only wait on non-init processes that
\* were created with exec."
waitsOn(process) == process.Pid # initPid /\ process.CreatedByRuntime

\* The loop of container.Wait over the processes GetAllProcesses returned:
\* the pids it waits on, in the order of the list.  The result of each
\* waitOnProcess is dropped.
RECURSIVE waitLoop(_)
waitLoop(processes) ==
  IF processes = <<>> THEN <<>>
  ELSE LET process == Head(processes)
       IN (IF waitsOn(process) THEN <<process.Pid>> ELSE <<>>)
            \o waitLoop(Tail(processes))

WaitNotCalled == [called |-> FALSE, err |-> NoErr, state |-> NilExitState]

\* Mutant of WaitResult: the error of GetAllProcesses is dropped.
WaitResultIgnoringQueryError(all) ==
  [log |-> waitLoop(all.procs) \o <<initPid>>,
   res |-> [called |-> TRUE, err |-> initWait.err, state |-> initWait.state]]

\* What container.Wait does with what GetAllProcesses returned: on its
\* error, "return nil, err" at once; else the waits of the loop, then the
\* wait on the init process, whose state or error it returns.
WaitResult(all) ==
  IF all.err # NoErr
    THEN [log |-> <<>>,
          res |-> [called |-> TRUE, err |-> all.err, state |-> NilExitState]]
    ELSE [log |-> waitLoop(all.procs) \o <<initPid>>,
          res |-> [called |-> TRUE, err |-> initWait.err,
                   state |-> initWait.state]]

\* container.Wait: GetAllProcesses, the waits of the loop, then the wait on
\* the init process, whose state or error it returns.
Wait ==
  /\ ~waitRes.called
  /\ LET all == GetAllProcessesResult
     IN /\ allView' = View(all)
        /\ waitLog' = WaitResult(all).log
        /\ waitRes' = WaitResult(all).res
  /\ UNCHANGED <<toolPs, containerDir, osPids, cmdlineFail, runningView,
                 deleteRes, initPid, waitFail>>
  /\ UNCHANGED <<pipesVars, sockVars, consoleVars, startVars>>

\* --------------------------------------------------------------- NewConsole

ErrOpenPtmx == "failed to open master pseudoterminal file"
ErrPtsname == "ioctl TIOCGPTN failed for ptsname"
ErrUnlockpt == "ioctl TIOCSPTLCK failed for unlockpt"
ErrChmod ==
  "failed to change permissions on the slave pseudoterminal file"
ErrChown == "failed to change ownership on the slave pseudoterminal file"

\* The calls of NewConsole in their order, and the error of each.
ConsoleSteps == <<"open", "ptsname", "unlockpt", "chmod", "chown">>
ConsoleErrors == <<ErrOpenPtmx, ErrPtsname, ErrUnlockpt, ErrChmod, ErrChown>>

\* Where a call of NewConsole fails: at one of its steps, or nowhere (0).
ConsoleFailures == 0..Len(ConsoleSteps)

\* The step failAt fails; the steps before it have succeeded.
Done(step, failAt) == failAt = 0 \/ step < failAt

\* ptsname: "/dev/pts/%d" of the number the kernel gave the pair.
ptsname(n) == <<"/dev/pts/">> \o Itoa(n)

\* A pseudoterminal pair: is the master descriptor open, does the caller of
\* NewConsole hold it, is the slave unlocked, has it mode 0600, owner 0:0.
Pty(failAt) ==
  [open |-> TRUE,
   held |-> failAt = 0,
   unlocked |-> Done(3, failAt),
   mode0600 |-> Done(4, failAt),
   owner0 |-> Done(5, failAt)]

ConsoleNotCalled ==
  [called |-> FALSE, err |-> NoErr, master |-> 0, console |-> <<>>,
   opened |-> 0]

\* What NewConsole returns: on a failure "nil, "", err", else the master (the
\* index of its pair) and the slave's path.  opened: the pair whose master
\* the call opened, 0 when /dev/ptmx could not be opened.
NewConsoleResult(failAt, n) ==
  IF failAt # 0
    THEN [called |-> TRUE, err |-> ConsoleErrors[failAt], master |-> 0,
          console |-> <<>>, opened |-> IF failAt = 1 THEN 0 ELSE n]
    ELSE [called |-> TRUE, err |-> NoErr, master |-> n,
          console |-> ptsname(n), opened |-> n]

\* NewConsole, failing at the step failAt.  Once /dev/ptmx is open the pair
\* exists; no failing return closes the master.
NewConsole(failAt) ==
  /\ Len(ptys) < MaxConsoles
  /\ LET n == Len(ptys) + 1
     IN /\ ptys' = IF failAt = 1 THEN ptys ELSE Append(ptys, Pty(failAt))
        /\ consoleRes' = NewConsoleResult(failAt, n)
  /\ UNCHANGED <<reconVars, pipesVars, sockVars, waitVars, startVars>>

\* The Go runtime's finalizer of an *os.File no one holds: it closes the
\* descriptor at some collection, if one ever comes.
Finalize(i) ==
  /\ ptys[i].open
  /\ ~ptys[i].held
  /\ ptys' = [ptys EXCEPT ![i].open = FALSE]
  /\ UNCHANGED consoleRes
  /\ UNCHANGED <<reconVars, pipesVars, sockVars, waitVars, startVars>>

\* ------------------------------------------- create / exec and startProcess

ErrMakeContainerDir == "failed to make container directory"
ErrTempDir == "ioutil.TempDir failed"
ErrConfig == "failed to open config file"
ErrCreateJson == "failed to create process.json file"
ErrEncodeJson == "failed to decode JSON from process.json file"
ErrSubreaper == "failed to set process as subreaper"
ErrConsoleSocket == "failed to listen on unix socket"
ErrSetupIO == "failed to set up io without terminal"
ErrCmdStart == "failed to start runc create/exec call"
ErrCmdWait == "failed to wait on runc create/exec call"
ErrReadPid == "failed to read pid file"
ErrRename == "rename failed"
ErrWriteInitPid == "failed to write initpid file"

\* The files of a process directory.
ProcessJson == <<"process.json">>
MasterSock == <<"master.sock">>
PidFile == <<"pid">>

\* A process directory under /var/lib/gcsrunc, beside the container's
\* directory: its files, and the text of its pid file.
NoTempDir == [exists |-> FALSE, files |-> {}, pidText |-> <<>>]
\* ioutil.TempDir(containerFilesDir, id)
TempDir == [exists |-> TRUE, files |-> {}, pidText |-> <<>>]

\* makeContainerDir: makes /var/lib/gcsrunc/<id>.
makeContainerDir == DirOf({})

\* Paths are sequences of names.  containerFilesDir = "/var/lib/gcsrunc"
containerFilesDir == <<"var", "lib", "gcsrunc">>

\* The id of the container of the call, character by character.
containerId == <<"c">>

\* The path of a name, as one element of a path.
RECURSIVE Chars(_)
Chars(name) == IF name = <<>> THEN "" ELSE Head(name) \o Chars(Tail(name))

\* The directory the queries scan: filepath.Join(containerFilesDir, c.p.id)
ScannedDir == containerFilesDir \o <<Chars(containerId)>>

\* The name ioutil.TempDir gives: the prefix, then a random decimal string.
TempName(prefix) == prefix \o <<"7">>

\* Mutant of TempDirParent: the temporary directory is made inside the
\* container's directory.
TempDirInContainerDir == ScannedDir

\* The directory in which the temporary process directory is made: the
\* first argument of ioutil.TempDir(containerFilesDir, id).
TempDirParent == containerFilesDir

\* The entries a temporary process directory is in the scanned directory:
\* its name when it is made there, none when it is made elsewhere.
TempEntries ==
  IF TempDirParent = ScannedDir THEN {TempName(containerId)} ELSE {}

\* The container's directory once ioutil.TempDir has made its directory.
AfterTempDir(dir) ==
  IF dir.exists THEN DirOf(dir.entries \cup TempEntries) ELSE dir

\* What a tool sends over the console socket: a descriptor under a name, a
\* name that fills the buffer, two descriptors, no control message, nothing
\* before it closes (a read of 0 bytes), or a connection whose read fails.
ValidMsg ==
  [acceptErr |-> FALSE, readErr |-> FALSE, payloadLen |-> 3, fill |-> "lower",
   oobn |-> oobSpace, parseErr |-> FALSE,
   msgs |-> <<[rights |-> TRUE, fds |-> FdList(1)]>>]
OversizedMsg == [ValidMsg EXCEPT !.payloadLen = maxNameLen]
TwoFdsMsg == [ValidMsg EXCEPT !.msgs = <<[rights |-> TRUE, fds |-> FdList(2)]>>]
NoControlMsg == [ValidMsg EXCEPT !.msgs = <<>>]
EofMsg == NoSockInput
ResetMsg == [NoSockInput EXCEPT !.readErr = TRUE]
AcceptFailure == [NoSockInput EXCEPT !.acceptErr = TRUE]
Deliveries ==
  {ValidMsg, OversizedMsg, TwoFdsMsg, NoControlMsg, EofMsg, ResetMsg}

\* How an invocation of runc goes: cmd.Start fails; or the tool runs, does or
\* does not connect to the console socket and send msg, does or does not
\* start the process and write its pid file, and exits with or without
\* success.
NoPlan ==
  [startFails |-> TRUE, connects |-> FALSE, msg |-> EofMsg, spawns |-> FALSE,
   exitOk |-> FALSE]
ToolPlans ==
  {NoPlan}
    \cup [startFails : {FALSE}, connects : {FALSE}, msg : {EofMsg},
          spawns : BOOLEAN, exitOk : BOOLEAN]
    \cup [startFails : {FALSE}, connects : {TRUE}, msg : Deliveries,
          spawns : BOOLEAN, exitOk : BOOLEAN]

\* What startProcess returns: "nil, err", or "&process{r, id, pid}, nil".
StartNotReturned ==
  [returned |-> FALSE, err |-> NoErr, process |-> FALSE, pid |-> 0]
startProcessReturn(err, pid) ==
  [returned |-> TRUE, err |-> err, process |-> err = NoErr,
   pid |-> IF err = NoErr THEN pid ELSE 0]

\* The goroutine of startProcess before the go statement.
NoRecv == [pc |-> "none", accepts |-> 0, reads |-> 0, logged |-> NoErr]
NoWire == [conn |-> "none", sent |-> FALSE, msg |-> EofMsg]
NoTool == [pc |-> "notStarted", pid |-> 0]

\* The state of a call before its first step.
StartBegin ==
  /\ mainPc = "begin"
  /\ mainLog = <<>>
  /\ tempDir = NoTempDir
  /\ jsonOpen = FALSE
  /\ listener = "none"
  /\ wire = NoWire
  /\ recv = NoRecv
  /\ tool = NoTool
  /\ startRes = StartNotReturned
  /\ opRes = StartNotReturned

\* A return of runCreateCommand / runExecCommand before startProcess is
\* called.
ReturnEarly(err) ==
  /\ mainPc' = "returned"
  /\ opRes' = startProcessReturn(err, 0)
  /\ UNCHANGED startRes

\* A failing return of startProcess, which its caller returns as it is.
ReturnError(err) ==
  /\ mainPc' = "returned"
  /\ startRes' = startProcessReturn(err, 0)
  /\ opRes' = startProcessReturn(err, 0)

\* runCreateCommand up to the call of startProcess: makeContainerDir,
\* ioutil.TempDir, hasTerminal.  failAt: the one of the three that fails.
CreateBegin(failAt) ==
  /\ op = "create"
  /\ mainPc = "begin"
  /\ containerDir' = IF failAt = 1 THEN containerDir
                     ELSE IF failAt = 2 THEN makeContainerDir
                     ELSE AfterTempDir(makeContainerDir)
  /\ tempDir' = IF failAt \in {1, 2} THEN tempDir ELSE TempDir
  /\ CASE failAt = 1 -> ReturnEarly(ErrMakeContainerDir)
       [] failAt = 2 -> ReturnEarly(ErrTempDir)
       [] failAt = 3 -> ReturnEarly(ErrConfig)
       [] OTHER -> mainPc' = "setup" /\ UNCHANGED <<startRes, opRes>>
  /\ UNCHANGED <<toolPs, osPids, cmdlineFail, runningView, allView, deleteRes>>
  /\ UNCHANGED <<planVars, mainLog, jsonOpen, listener, wire, recv, tool>>
  /\ UNCHANGED <<pipesVars, sockVars, waitVars, consoleVars>>

\* runExecCommand up to the call of startProcess: ioutil.TempDir, os.Create
\* of process.json, the encoding of the process into it.  The file f is not
\* closed on any path.
ExecBegin(failAt) ==
  /\ op = "exec"
  /\ mainPc = "begin"
  /\ tempDir' = IF failAt = 1 THEN tempDir
                ELSE IF failAt = 2 THEN TempDir
                ELSE [TempDir EXCEPT !.files = {ProcessJson}]
  /\ jsonOpen' = (failAt \notin {1, 2})
  /\ CASE failAt = 1 -> ReturnEarly(ErrTempDir)
       [] failAt = 2 -> ReturnEarly(ErrCreateJson)
       [] failAt = 3 -> ReturnEarly(ErrEncodeJson)
       [] OTHER -> mainPc' = "setup" /\ UNCHANGED <<startRes, opRes>>
  /\ containerDir' = IF failAt = 1 THEN containerDir
                     ELSE AfterTempDir(containerDir)
  /\ UNCHANGED <<toolPs, osPids, cmdlineFail, runningView, allView, deleteRes>>
  /\ UNCHANGED <<planVars, mainLog, listener, wire, recv, tool>>
  /\ UNCHANGED <<pipesVars, sockVars, waitVars, consoleVars>>

\* createConsoleSocket: the listener on <processDir>/master.sock.
createConsoleSocket(dir) == [dir EXCEPT !.files = @ \cup {MasterSock}]

\* startProcess up to the go statement: SetSubreaper, then
\* createConsoleSocket (with a terminal) or setupIOWithoutTerminal.
\* failAt: 1 SetSubreaper fails, 2 the socket or the pipes cannot be made.
StartSetup(failAt) ==
  /\ mainPc = "setup"
  /\ CASE failAt = 1 -> ReturnError(ErrSubreaper) /\ UNCHANGED <<tempDir, listener>>
       [] failAt = 2 ->
            /\ ReturnError(IF hasTerminal THEN ErrConsoleSocket ELSE ErrSetupIO)
            /\ UNCHANGED <<tempDir, listener>>
       [] OTHER ->
            /\ mainPc' = IF hasTerminal THEN "go" ELSE "cmdStart"
            /\ tempDir' = IF hasTerminal THEN createConsoleSocket(tempDir)
                          ELSE tempDir
            /\ listener' = IF hasTerminal THEN "listening" ELSE listener
            /\ UNCHANGED <<startRes, opRes>>
  /\ UNCHANGED reconVars
  /\ UNCHANGED <<planVars, mainLog, jsonOpen, wire, recv, tool>>
  /\ UNCHANGED <<pipesVars, sockVars, waitVars, consoleVars>>

\* Mutant of afterGo: setupIOForTerminal is called in the caller's own
\* thread, which then stands in Accept.
afterCallInline == "inAccept"

\* Where the caller stands after "go func() { setupIOForTerminal ... }()":
\* at once at the making of the command.
afterGo == "cmdStart"

\* The go statement: the receive starts in its own goroutine, in Accept.
GoReceive ==
  /\ mainPc = "go"
  /\ recv' = [recv EXCEPT !.pc = "accept"]
  /\ mainPc' = afterGo
  /\ UNCHANGED reconVars
  /\ UNCHANGED <<planVars, mainLog, tempDir, jsonOpen, listener, wire, tool,
                 startRes, opRes>>
  /\ UNCHANGED <<pipesVars, sockVars, waitVars, consoleVars>>

\* cmd.Start()
CmdStart ==
  /\ mainPc = "cmdStart"
  /\ IF toolPlan.startFails
       THEN ReturnError(ErrCmdStart) /\ UNCHANGED tool
       ELSE /\ tool' = [tool EXCEPT !.pc = "running"]
            /\ mainPc' = "cmdWait"
            /\ UNCHANGED <<startRes, opRes>>
  /\ UNCHANGED reconVars
  /\ UNCHANGED <<planVars, mainLog, tempDir, jsonOpen, listener, wire, recv>>
  /\ UNCHANGED <<pipesVars, sockVars, waitVars, consoleVars>>

\* Mutant of cmdWaitReturns: the wait also joins the goroutine.
cmdWaitJoinsReceive(t, r) == t.pc = "exited" /\ r.pc \in {"none", "done"}

\* cmd.Wait() returns when the tool has exited.
cmdWaitReturns(t, r) == t.pc = "exited"

\* cmd.Wait()
CmdWait ==
  /\ mainPc = "cmdWait"
  /\ cmdWaitReturns(tool, recv)
  /\ IF ~toolPlan.exitOk
       THEN ReturnError(ErrCmdWait) /\ UNCHANGED mainLog
       ELSE /\ mainPc' = "readPid"
            /\ mainLog' = Append(mainLog, "toolExited")
            /\ UNCHANGED <<startRes, opRes>>
  /\ UNCHANGED reconVars
  /\ UNCHANGED <<planVars, tempDir, jsonOpen, listener, wire, recv, tool>>
  /\ UNCHANGED <<pipesVars, sockVars, waitVars, consoleVars>>

\* readPidFile: the integer in the file <processDir>/pid.
readPidFile(dir) ==
  IF PidFile \notin dir.files \/ Atoi(dir.pidText).err
    THEN [err |-> ErrReadPid, pid |-> 0]
    ELSE [err |-> NoErr, pid |-> Atoi(dir.pidText).val]

\* r.readPidFile(filepath.Join(tempProcessDir, "pid"))
ReadPid ==
  /\ mainPc = "readPid"
  /\ LET r == readPidFile(tempDir)
     IN IF r.err # NoErr
          THEN ReturnError(r.err) /\ UNCHANGED mainLog
          ELSE /\ mainPc' = "rename"
               /\ mainLog' = Append(mainLog, "pidRead")
               /\ UNCHANGED <<startRes, opRes>>
  /\ UNCHANGED reconVars
  /\ UNCHANGED <<planVars, tempDir, jsonOpen, listener, wire, recv, tool>>
  /\ UNCHANGED <<pipesVars, sockVars, waitVars, consoleVars>>

\* Mutant of Rename: the directory is copied, and its source stays.
RenameKeepsSource(temp, dir, pid, ioErr) ==
  IF ioErr \/ ~temp.exists \/ ~dir.exists \/ Itoa(pid) \in dir.entries
    THEN [err |-> ErrRename, temp |-> temp, dir |-> dir]
    ELSE [err |-> NoErr, temp |-> temp,
          dir |-> DirOf(dir.entries \cup {Itoa(pid)})]

\* os.Rename(tempProcessDir, <container dir>/strconv.Itoa(pid)): fails on an
\* I/O error, without the container's directory, and onto a directory that
\* is there already (a process directory is never empty); else the temporary
\* directory, wherever it was, becomes the entry named by the pid.
Rename(temp, dir, pid, ioErr) ==
  IF ioErr \/ ~temp.exists \/ ~dir.exists \/ Itoa(pid) \in dir.entries
    THEN [err |-> ErrRename, temp |-> temp, dir |-> dir]
    ELSE [err |-> NoErr, temp |-> NoTempDir,
          dir |-> DirOf((dir.entries \ TempEntries) \cup {Itoa(pid)})]

\* The rename and the return of startProcess.  runExecCommand returns what
\* startProcess returns; runCreateCommand goes on to the initpid file.
RenameStep(ioErr) ==
  /\ mainPc = "rename"
  /\ LET pid == readPidFile(tempDir).pid
         r == Rename(tempDir, containerDir, pid, ioErr)
     IN /\ tempDir' = r.temp
        /\ containerDir' = r.dir
        /\ IF r.err # NoErr
             THEN ReturnError(r.err) /\ UNCHANGED mainLog
             ELSE /\ mainLog' = Append(mainLog, "renamed")
                  /\ startRes' = startProcessReturn(NoErr, pid)
                  /\ IF op = "exec"
                       THEN /\ opRes' = startProcessReturn(NoErr, pid)
                            /\ mainPc' = "returned"
                       ELSE /\ mainPc' = "initPid"
                            /\ UNCHANGED opRes
  /\ UNCHANGED <<toolPs, osPids, cmdlineFail, runningView, allView, deleteRes>>
  /\ UNCHANGED <<planVars, jsonOpen, listener, wire, recv, tool>>
  /\ UNCHANGED <<pipesVars, sockVars, waitVars, consoleVars>>

\* runCreateCommand after startProcess: ioutil.WriteFile of the initpid file.
WriteInitPid(fails) ==
  /\ mainPc = "initPid"
  /\ mainPc' = "returned"
  /\ IF fails
       THEN /\ opRes' = startProcessReturn(ErrWriteInitPid, 0)
            /\ UNCHANGED containerDir
       ELSE /\ opRes' = startRes
            /\ containerDir' =
                 DirOf(containerDir.entries \cup {initPidFilename})
  /\ UNCHANGED <<toolPs, osPids, cmdlineFail, runningView, allView, deleteRes>>
  /\ UNCHANGED <<planVars, mainLog, tempDir, jsonOpen, listener, wire, recv,
                 tool, startRes>>
  /\ UNCHANGED <<pipesVars, sockVars, waitVars, consoleVars>>

\* The finalizer of the *os.File f of runExecCommand, which nothing holds
\* once the process is encoded: it closes the descriptor at some collection,
\* if one ever comes.
FinalizeProcessJson ==
  /\ jsonOpen
  /\ jsonOpen' = FALSE
  /\ UNCHANGED reconVars
  /\ UNCHANGED <<planVars, mainPc, mainLog, tempDir, listener, wire, recv,
                 tool, startRes, opRes>>
  /\ UNCHANGED <<pipesVars, sockVars, waitVars, consoleVars>>

\* -------------------------------------------------- the invocation of runc

\* The tool connects to the path of --console-socket.
ToolConnect ==
  /\ tool.pc = "running"
  /\ toolPlan.connects
  /\ listener = "listening"
  /\ wire' = [wire EXCEPT !.conn = "pending"]
  /\ tool' = [tool EXCEPT !.pc = "connected"]
  /\ UNCHANGED reconVars
  /\ UNCHANGED <<planVars, mainPc, mainLog, tempDir, jsonOpen, listener, recv,
                 startRes, opRes>>
  /\ UNCHANGED <<pipesVars, sockVars, waitVars, consoleVars>>

\* The tool sends its message (or closes without one).
ToolSend ==
  /\ tool.pc = "connected"
  /\ wire' = [wire EXCEPT !.sent = TRUE, !.msg = toolPlan.msg]
  /\ tool' = [tool EXCEPT !.pc = "sent"]
  /\ UNCHANGED reconVars
  /\ UNCHANGED <<planVars, mainPc, mainLog, tempDir, jsonOpen, listener, recv,
                 startRes, opRes>>
  /\ UNCHANGED <<pipesVars, sockVars, waitVars, consoleVars>>

\* The tool starts the process in the container under a pid the host does
\* not hold, and writes the pid to the file of --pid-file.
ToolSpawn(pid) ==
  /\ tool.pc = IF toolPlan.connects THEN "sent" ELSE "running"
  /\ toolPlan.spawns
  /\ pid \notin osPids
  /\ toolPs' = [toolPs EXCEPT !.pids = @ \cup {pid}]
  /\ osPids' = osPids \cup {pid}
  /\ tempDir' = [tempDir EXCEPT !.files = @ \cup {PidFile},
                                !.pidText = Itoa(pid)]
  /\ tool' = [pc |-> "spawned", pid |-> pid]
  /\ UNCHANGED <<containerDir, cmdlineFail, runningView, allView, deleteRes>>
  /\ UNCHANGED <<planVars, mainPc, mainLog, jsonOpen, listener, wire, recv,
                 startRes, opRes>>
  /\ UNCHANGED <<pipesVars, sockVars, waitVars, consoleVars>>

\* The tool exits.
ToolExit ==
  /\ tool.pc = IF toolPlan.spawns THEN "spawned"
               ELSE IF toolPlan.connects THEN "sent" ELSE "running"
  /\ tool' = [tool EXCEPT !.pc = "exited"]
  /\ UNCHANGED reconVars
  /\ UNCHANGED <<planVars, mainPc, mainLog, tempDir, jsonOpen, listener, wire,
                 recv, startRes, opRes>>
  /\ UNCHANGED <<pipesVars, sockVars, waitVars, consoleVars>>

\* ------------------------------------------- the goroutine of the receive

\* setupIOForTerminal: it returns the error of getMasterFromSocket.
setupIOForTerminal(res) == res.err

\* The console socket after its one receive: torn down.
tearDown(l) == "closed"

\* Mutant of afterReceive: a failed receive accepts again.
retryReceive(err) == IF err # NoErr THEN "accept" ELSE "done"

\* The goroutine after setupIOForTerminal returned: it logs the error, if
\* any, and ends.
afterReceive(err) == "done"

\* listener.Accept() of getMasterFromSocket: it returns when a connection is
\* there, with it or with an error.
Accept(fails) ==
  /\ recv.pc = "accept"
  /\ wire.conn = "pending"
  /\ IF fails
       THEN LET res == GetMasterResult(AcceptFailure)
            IN /\ sockIn' = AcceptFailure
               /\ sockRes' = res
               /\ recv' = [recv EXCEPT
                             !.pc = afterReceive(setupIOForTerminal(res)),
                             !.logged = setupIOForTerminal(res)]
               /\ listener' = tearDown(listener)
               /\ UNCHANGED wire
       ELSE /\ recv' = [recv EXCEPT !.pc = "read", !.accepts = @ + 1]
            /\ wire' = [wire EXCEPT !.conn = "accepted"]
            /\ UNCHANGED <<sockVars, listener>>
  /\ UNCHANGED reconVars
  /\ UNCHANGED <<planVars, mainPc, mainLog, tempDir, jsonOpen, tool,
                 startRes, opRes>>
  /\ UNCHANGED <<pipesVars, waitVars, consoleVars>>

\* The rest of getMasterFromSocket: ReadMsgUnix returns when the peer has
\* sent or closed; the message is checked, the deferred conn.Close runs, the
\* socket is torn down and the goroutine logs the error, if any.
Receive ==
  /\ recv.pc = "read"
  /\ wire.sent
  /\ LET res == GetMasterResult(wire.msg)
     IN /\ sockIn' = wire.msg
        /\ sockRes' = res
        /\ wire' = [wire EXCEPT
                      !.conn = IF res.connClosed THEN "closed" ELSE @]
        /\ recv' = [recv EXCEPT
                      !.pc = afterReceive(setupIOForTerminal(res)),
                      !.reads = @ + 1,
                      !.logged = setupIOForTerminal(res)]
        /\ listener' = tearDown(listener)
  /\ UNCHANGED reconVars
  /\ UNCHANGED <<planVars, mainPc, mainLog, tempDir, jsonOpen, tool,
                 startRes, opRes>>
  /\ UNCHANGED <<pipesVars, waitVars, consoleVars>>

\* ----------------------------------------------------------- specifications

ReconIdle ==
  /\ toolPs = [ok |-> TRUE, pids |-> {}]
  /\ containerDir = NoDir
  /\ osPids = {}
  /\ cmdlineFail = {}
  /\ runningView = NotCalled
  /\ allView = NotCalled
  /\ deleteRes = [called |-> FALSE, err |-> NoErr]

PipesIdle ==
  /\ pipes = NilPipes
  /\ pipes0 = NilPipes
  /\ closeCount = [s \in Members |-> 0]
  /\ closeCalls = 0
  /\ lastClose = [closes |-> <<>>, ret |-> NoErr]

SockIdle ==
  /\ sockIn = NoSockInput
  /\ sockRes = SockNotCalled

WaitIdle ==
  /\ initPid = 1
  /\ waitFail = {}
  /\ waitLog = <<>>
  /\ waitRes = WaitNotCalled

ConsoleIdle ==
  /\ ptys = <<>>
  /\ consoleRes = ConsoleNotCalled

StartIdle ==
  /\ op = "create"
  /\ hasTerminal = FALSE
  /\ toolPlan = NoPlan
  /\ StartBegin

\* A StdioPipes as its maker hands it out: nil, or any of its members set.
PipesInit ==
  /\ pipes \in {NilPipes} \cup {PipesOf(set) : set \in SUBSET Members}
  /\ pipes0 = pipes
  /\ closeCount = [s \in Members |-> 0]
  /\ closeCalls = 0
  /\ lastClose = [closes |-> <<>>, ret |-> NoErr]

InitPipes == ReconIdle /\ PipesInit /\ SockIdle /\ WaitIdle /\ ConsoleIdle /\ StartIdle

NextPipes == Close

SpecPipes == InitPipes /\ [][NextPipes]_vars

InitSock == ReconIdle /\ PipesIdle /\ SockIdle /\ WaitIdle /\ ConsoleIdle /\ StartIdle

NextSock == \E in \in SockInputs : getMasterFromSocket(in)

SpecSock == InitSock /\ [][NextSock]_vars

\* --------------------------------------------- specification: reconciliation

\* The host as a query can find it: any answer of "runc ps", any contents of
\* the container directory, any set of live pids, any set of unreadable
\* command lines.
ReconInit ==
  /\ toolPs \in [ok : BOOLEAN, pids : SUBSET Pids]
  /\ ~toolPs.ok => toolPs.pids = {}
  /\ containerDir \in {NoDir} \cup {DirOf(S) : S \in SUBSET DirNames}
  /\ osPids \in SUBSET Pids
  /\ cmdlineFail \in SUBSET Pids
  /\ runningView = NotCalled
  /\ allView = NotCalled
  /\ deleteRes = [called |-> FALSE, err |-> NoErr]

Init == ReconInit /\ PipesIdle /\ SockIdle /\ WaitIdle /\ ConsoleIdle /\ StartIdle

Next ==
  \/ GetRunningProcesses
  \/ GetAllProcesses

Spec == Init /\ [][Next]_vars

\* ----------------------------------------------------- specification: delete

\* A container on a host whose command lines can all be read, deleted and
\* queried in any order.
InitDelete ==
  ReconInit /\ cmdlineFail = {} /\ PipesIdle /\ SockIdle /\ WaitIdle /\ ConsoleIdle /\ StartIdle

NextDelete ==
  \/ \E toolFails \in BOOLEAN : Delete(toolFails)
  \/ GetRunningProcesses
  \/ GetAllProcesses

SpecDelete == InitDelete /\ [][NextDelete]_vars

\* ------------------------------------------------------- specification: wait

\* container.Wait on any host: any init pid, any set of pids whose wait fails.
InitWait ==
  /\ ReconInit
  /\ cmdlineFail \in {{}, {MaxPid}}
  /\ initPid \in Pids
  /\ waitFail \in SUBSET Pids
  /\ waitLog = <<>>
  /\ waitRes = WaitNotCalled
  /\ PipesIdle
  /\ SockIdle
  /\ ConsoleIdle
  /\ StartIdle

NextWait == Wait

SpecWait == InitWait /\ [][NextWait]_vars

\* ---------------------------------------------------- specification: console

InitConsole == ReconIdle /\ PipesIdle /\ SockIdle /\ WaitIdle /\ ConsoleIdle /\ StartIdle

NextConsole ==
  \/ \E failAt \in ConsoleFailures : NewConsole(failAt)
  \/ \E i \in 1..Len(ptys) : Finalize(i)

SpecConsole == InitConsole /\ [][NextConsole]_vars

\* ------------------------------------------ specification: create and exec

\* A call of CreateContainer for a new container, or of ExecProcess in a
\* container whose init process has pid 1, possibly beside the directory an
\* earlier process of the highest pid left behind; with any plan of the tool.
InitStart ==
  /\ op \in {"create", "exec"}
  /\ hasTerminal \in BOOLEAN
  /\ toolPlan \in ToolPlans
  /\ toolPlan.connects => hasTerminal
  /\ StartBegin
  /\ toolPs = [ok |-> TRUE, pids |-> IF op = "exec" THEN {1} ELSE {}]
  /\ osPids = toolPs.pids
  /\ containerDir \in
       IF op = "create" THEN {NoDir}
       ELSE {DirOf({initPidFilename, Itoa(1)}),
             DirOf({initPidFilename, Itoa(1), Itoa(MaxPid)})}
  /\ cmdlineFail = {}
  /\ runningView = NotCalled
  /\ allView = NotCalled
  /\ deleteRes = [called |-> FALSE, err |-> NoErr]
  /\ PipesIdle
  /\ SockIdle
  /\ WaitIdle
  /\ ConsoleIdle

MainStep ==
  \/ \E failAt \in 0..3 : CreateBegin(failAt)
  \/ \E failAt \in 0..3 : ExecBegin(failAt)
  \/ \E failAt \in 0..2 : StartSetup(failAt)
  \/ GoReceive
  \/ CmdStart
  \/ CmdWait
  \/ ReadPid
  \/ \E ioErr \in BOOLEAN : RenameStep(ioErr)
  \/ \E fails \in BOOLEAN : WriteInitPid(fails)

ToolStep ==
  \/ ToolConnect
  \/ ToolSend
  \/ \E pid \in Pids : ToolSpawn(pid)
  \/ ToolExit

RecvStep ==
  \/ \E fails \in BOOLEAN : Accept(fails)
  \/ Receive

NextStart ==
  \/ MainStep
  \/ ToolStep
  \/ RecvStep
  \/ FinalizeProcessJson

SpecStart == InitStart /\ [][NextStart]_vars

\* The same, with the scheduling of Go and of the host: a goroutine, the
\* caller and the tool each take their next step when they can.
SpecStartFair ==
  /\ InitStart
  /\ [][NextStart]_vars
  /\ WF_vars(MainStep)
  /\ WF_vars(ToolStep)
  /\ WF_vars(RecvStep)

\* A caller holds the container: it was there before the exec, or the create
\* has returned it.
ContainerHeld == op = "exec" \/ (opRes.returned /\ opRes.process)

\* The same call, with the queries called beside it at any moment at which
\* a caller holds the container.
NextPublish ==
  \/ NextStart
  \/ ContainerHeld /\ GetRunningProcesses
  \/ ContainerHeld /\ GetAllProcesses

SpecPublish == InitStart /\ [][NextPublish]_vars

\* ------------------------------------------------- claims: reconciliation

\* The pids of a returned list.
PidsOf(procs) == {procs[i].Pid : i \in 1..Len(procs)}

\* The entries of a directory other than the reserved file.
PidEntries(dir) == dir.entries \ {initPidFilename}

\* Every entry but the reserved file is named by an integer.
WellFormedDir(dir) == dir.exists /\ \A n \in PidEntries(dir) : ~Atoi(n).err

\* D: the pids that have a directory.
DirPids(dir) == {Atoi(n).val : n \in {m \in PidEntries(dir) : ~Atoi(m).err}}

\* The pids of the directory that runC does not report and the OS still holds.
ZombiePids(dir) == {d \in DirPids(dir) : d \notin toolPs.pids /\ d \in osPids}

\* C1: when the tool answers, the directory holds only integer names (and
\* possibly initpid) and every command-line lookup succeeds,
\* GetRunningProcesses returns exactly one entry per running pid and no other,
\* each with IsZombie false and with CreatedByRuntime true exactly for the
\* pids that have a directory.
C1_RunningView ==
  (/\ runningView.called
   /\ toolPs.ok
   /\ WellFormedDir(runningView.dir)
   /\ toolPs.pids \cap cmdlineFail = {})
  => /\ runningView.err = NoErr
     /\ PidsOf(runningView.procs) = toolPs.pids
     /\ Len(runningView.procs) = Cardinality(toolPs.pids)
     /\ \A i \in 1..Len(runningView.procs) :
          /\ runningView.procs[i].IsZombie = FALSE
          /\ runningView.procs[i].CreatedByRuntime
               <=> runningView.procs[i].Pid \in DirPids(runningView.dir)

\* Two running pids, a directory for the second only, and the reserved file:
\* the query has returned two entries.
C1_Witness ==
  /\ runningView.called
  /\ runningView.err = NoErr
  /\ toolPs.pids = {1, 2}
  /\ runningView.dir = DirOf({Itoa(2), initPidFilename})
  /\ Len(runningView.procs) = 2

\* C2: when the tool answers, the directory is well formed and the lookups
\* succeed, GetAllProcesses returns exactly the running pids and the pids of
\* the directory that the OS still holds; the latter, when not running, are
\* zombies created by the runtime; running pids are not zombies; a pid that
\* is neither running nor held by the OS is left out.
C2_AllView ==
  (/\ allView.called
   /\ toolPs.ok
   /\ WellFormedDir(allView.dir)
   /\ (toolPs.pids \cup ZombiePids(allView.dir)) \cap cmdlineFail = {})
  => /\ allView.err = NoErr
     /\ PidsOf(allView.procs)
          = toolPs.pids \cup {d \in DirPids(allView.dir) : d \in osPids}
     /\ Len(allView.procs) = Cardinality(PidsOf(allView.procs))
     /\ \A i \in 1..Len(allView.procs) :
          LET p == allView.procs[i]
          IN /\ p.Pid \in ZombiePids(allView.dir)
                  => p.IsZombie /\ p.CreatedByRuntime
             /\ p.Pid \in toolPs.pids => ~p.IsZombie

\* Pid 1 runs; pid 2 has a directory, is not reported by the tool and is still
\* held by the OS: the view lists it as a zombie.
C2_Witness ==
  /\ allView.called
  /\ allView.err = NoErr
  /\ toolPs.pids = {1}
  /\ Itoa(2) \in allView.dir.entries
  /\ 2 \in osPids
  /\ \E i \in 1..Len(allView.procs) :
       allView.procs[i].Pid = 2 /\ allView.procs[i].IsZombie

\* A view of a directory with an entry that is neither the reserved file nor
\* an integer is an error with no list; and a parse error is only ever due to
\* such an entry (never to the reserved file).
BadEntryIsError(view) ==
  /\ (view.called /\ \E n \in PidEntries(view.dir) : Atoi(n).err)
       => view.err # NoErr /\ view.procs = <<>>
  /\ (view.called /\ view.err = ErrParsePid)
       => \E n \in PidEntries(view.dir) : Atoi(n).err

\* C3: in both queries a directory entry that is not the reserved initpid
\* file and does not parse as an integer makes the query return an error and
\* no list, wherever it stands in the listing; the initpid entry is skipped
\* and never an error.
C3_BadEntry == BadEntryIsError(runningView) /\ BadEntryIsError(allView)

\* Both queries have met the name "1a", listed between "1" and "initpid", and
\* returned the parse error.
C3_Witness ==
  /\ runningView.called /\ allView.called
  /\ runningView.dir = DirOf({Itoa(1), BadName, initPidFilename})
  /\ allView.dir = runningView.dir
  /\ runningView.err = ErrParsePid
  /\ allView.err = ErrParsePid

\* C9: the two views, taken of the same state, give every pid they both list
\* the same CreatedByRuntime and the same IsZombie.
C9_ViewsAgree ==
  (/\ runningView.called /\ allView.called
   /\ runningView.err = NoErr /\ allView.err = NoErr
   /\ runningView.dir = allView.dir)
  => \A i \in 1..Len(runningView.procs), j \in 1..Len(allView.procs) :
       runningView.procs[i].Pid = allView.procs[j].Pid
         => /\ runningView.procs[i].CreatedByRuntime
                 = allView.procs[j].CreatedByRuntime
            /\ runningView.procs[i].IsZombie = allView.procs[j].IsZombie

\* A failed command-line lookup of a running pid makes the query fail with
\* that error and no list.
RunningLookupSurfaced(view) ==
  (view.called /\ toolPs.ok /\ toolPs.pids \cap cmdlineFail # {})
    => view.err = ErrCmdline /\ view.procs = <<>>

\* C10: if the command-line lookup fails for a pid of the running set, in
\* either query, or for a zombie pid found by GetAllProcesses, the query
\* returns an error and no partial list.
C10_LookupFailure ==
  /\ RunningLookupSurfaced(runningView)
  /\ RunningLookupSurfaced(allView)
  /\ (/\ allView.called /\ toolPs.ok /\ allView.dir.exists
      /\ ZombiePids(allView.dir) \cap cmdlineFail # {})
       => allView.err # NoErr /\ allView.procs = <<>>
  /\ (/\ allView.called /\ toolPs.ok /\ WellFormedDir(allView.dir)
      /\ toolPs.pids \cap cmdlineFail = {}
      /\ ZombiePids(allView.dir) \cap cmdlineFail # {})
       => allView.err = ErrCmdline

\* The lookup of a zombie's command line has failed in GetAllProcesses, after
\* the lookups of the running pids succeeded.
C10_Witness ==
  /\ allView.called
  /\ toolPs.ok /\ toolPs.pids # {}
  /\ toolPs.pids \cap cmdlineFail = {}
  /\ ZombiePids(allView.dir) \cap cmdlineFail # {}
  /\ allView.err = ErrCmdline

\* ------------------------------------------------------------ claims: delete

\* C4: when container.Delete returns, whether the tool's delete succeeded or
\* failed, the container's directory no longer exists.
C4_DeleteRemovesDir ==
  [][(\E toolFails \in BOOLEAN : Delete(toolFails)) => ~containerDir'.exists]_vars

\* -------------------------------------------------------- claims: StdioPipes

AllMembersNil(p) == p.In = NIL /\ p.Out = NIL /\ p.Err = NIL /\ p.Pty = NIL

\* The streams a StdioPipes holds.
StreamsOf(p) == {p.In, p.Out, p.Err, p.Pty} \ {NIL}

\* C5: over any sequence of Close calls every stream of a StdioPipes is
\* closed exactly once, by the first call, after which every member is nil;
\* later calls close nothing and return nil; no other stream is ever closed,
\* and Close on the nil pointer closes nothing.
C5_CloseIdempotent ==
  /\ closeCalls >= 1 =>
       /\ \A s \in Members :
            closeCount[s] = IF s \in StreamsOf(pipes0) THEN 1 ELSE 0
       /\ AllMembersNil(pipes)
       /\ lastClose.ret = NoErr
  /\ closeCalls >= 2 => lastClose.closes = <<>>
  /\ pipes0.nil => \A s \in Members : closeCount[s] = 0

\* A StdioPipes with stdin and the pty set has been closed three times.
C5_Witness ==
  /\ closeCalls = 3
  /\ pipes0 = PipesOf({"In", "Pty"})
  /\ closeCount["In"] = 1 /\ closeCount["Pty"] = 1

\* ---------------------------------------------------- claims: console socket

\* A message was read from an accepted connection.
MessageRead == sockRes.called /\ ~sockIn.acceptErr /\ ~sockIn.readErr

\* n: the name length the read reports.
ReportedLen ==
  IF sockIn.payloadLen < maxNameLen THEN sockIn.payloadLen ELSE maxNameLen

\* The message passed the size tests and its ancillary data parsed.
AncillaryParsed ==
  /\ MessageRead
  /\ ReportedLen < maxNameLen
  /\ sockIn.oobn = oobSpace
  /\ ~sockIn.parseErr

WrongAncillarySizeOnly == [sockIn EXCEPT !.payloadLen = 3, !.oobn = 0]

C7_CountErrors ==
  /\ Cardinality({ErrNoControl, ErrManyControl, ErrNoFds, ErrManyFds}) = 4
  /\ AncillaryParsed =>
       /\ Len(sockIn.msgs) = 0 =>
            sockRes.err = ErrNoControl /\ ~sockRes.file.valid
       /\ Len(sockIn.msgs) > 1 =>
            sockRes.err = ErrManyControl /\ ~sockRes.file.valid
       /\ (Len(sockIn.msgs) = 1 /\ sockIn.msgs[1].rights) =>
            /\ Len(sockIn.msgs[1].fds) = 0 =>
                 sockRes.err = ErrNoFds /\ ~sockRes.file.valid
            /\ Len(sockIn.msgs[1].fds) > 1 =>
                 sockRes.err = ErrManyFds /\ ~sockRes.file.valid

\* Two control messages, the first with two descriptors: the receive failed
\* on the number of messages.
C7_Witness ==
  /\ AncillaryParsed
  /\ Len(sockIn.msgs) = 2
  /\ Len(sockIn.msgs[1].fds) = 2
  /\ sockRes.err = ErrManyControl

\* C8: a message with a name shorter than 4096 bytes, ancillary data of the
\* size of one descriptor, one control message and one descriptor makes the
\* receive return the file of that descriptor, named by the first n bytes of
\* the name sent.
C8_ValidMessage ==
  (/\ AncillaryParsed
   /\ Len(sockIn.msgs) = 1
   /\ sockIn.msgs[1].rights
   /\ Len(sockIn.msgs[1].fds) = 1)
  => /\ sockRes.err = NoErr
     /\ sockRes.file.valid
     /\ sockRes.file.fd = sockIn.msgs[1].fds[1]
     /\ sockRes.file.name = SubSeq(Payload(sockIn), 1, ReportedLen)

\* A name of 4095 bytes arrived with one descriptor and came back as the name
\* of the file.
C8_Witness ==
  /\ AncillaryParsed
  /\ sockIn.payloadLen = maxNameLen - 1
  /\ sockRes.err = NoErr
  /\ sockRes.file.valid
  /\ Len(sockRes.file.name) = maxNameLen - 1

\* ------------------------------------------------------ claims: container.Wait

\* The pids at the positions 1..n-1 of a sequence.
Front(log) == {log[i] : i \in 1..(Len(log) - 1)}

\* The processes of a view that were started by exec: not init, created by
\* the runtime.
ExecPidsOf(view) ==
  {view.procs[i].Pid : i \in {j \in 1..Len(view.procs) :
     /\ view.procs[j].Pid # initPid
     /\ view.procs[j].CreatedByRuntime}}

C20_MasterNotLeaked ==
  (consoleRes.called /\ consoleRes.err # NoErr /\ consoleRes.opened # 0) =>
     \/ ~ptys[consoleRes.opened].open
     \/ consoleRes.master = consoleRes.opened

\* ------------------------------------------------- claims: create and exec

\* Where the caller stands once the go statement has returned.
AfterGoPcs == {"cmdStart", "cmdWait", "readPid", "rename", "initPid", "returned"}

\* A tool that connects to the console socket and passes one descriptor.
ToolPassesDescriptor ==
  ~toolPlan.startFails /\ toolPlan.connects /\ toolPlan.msg = ValidMsg

\* C12: with a terminal, the receive runs in a goroutine of its own that is
\* started when the socket is listening and before the tool is invoked; the
\* caller is never the one standing in Accept; and with a tool that connects
\* and passes one descriptor, startProcess returns, the tool's invocation
\* ends and the receive returns.
C12_ReceiveInBackground ==
  /\ [](recv.pc # "none" => listener # "none")
  /\ [](recv.pc = "accept" => listener = "listening")
  /\ [](tool.pc # "notStarted" /\ hasTerminal => recv.pc # "none")
  /\ [](recv.pc = "accept" => mainPc \in AfterGoPcs)
  /\ (recv.pc = "accept" /\ ToolPassesDescriptor)
       ~> (startRes.returned /\ tool.pc = "exited" /\ recv.pc = "done")

\* A terminal process started with the descriptor received: the caller has
\* its process and the goroutine has the master.
C12_Witness ==
  /\ hasTerminal
  /\ ToolPassesDescriptor
  /\ startRes.returned
  /\ startRes.process
  /\ tool.pc = "exited"
  /\ recv.pc = "done"
  /\ sockRes.file.valid

\* The temporary process directory has been renamed to the pid.
Renamed == mainLog # <<>> /\ mainLog[Len(mainLog)] = "renamed"

\* C13: while the process the tool started has no directory of its pid yet
\* (the temporary directory is not renamed), no view a query has returned
\* holds an entry for that pid.
C13_PublicationBarrier ==
  (tool.pid # 0 /\ ~Renamed) =>
     \A view \in {runningView, allView} :
        view.called => tool.pid \notin PidsOf(view.procs)

\* The error of a return that comes after a directory of the call was made:
\* any error but that of the first step (makeContainerDir of a create,
\* ioutil.TempDir of an exec).
ReturnedAfterMkdir ==
  /\ opRes.returned
  /\ opRes.err # NoErr
  /\ opRes.err # (IF op = "create" THEN ErrMakeContainerDir ELSE ErrTempDir)

\* C14: when CreateContainer or ExecProcess returns an error after the
\* temporary process directory or (for a create) the container's directory
\* was made, those directories are gone at the return.
C14_FailedStartCleansUp ==
  ReturnedAfterMkdir =>
     /\ ~tempDir.exists
     /\ op = "create" => ~containerDir.exists

\* The successes startProcess needs before it returns a process, in order.
StartOrder == <<"toolExited", "pidRead", "renamed">>

\* C15: startProcess returns a process only after the tool has exited with
\* success, the pid file has been read and the temporary directory has been
\* renamed to the decimal pid inside the container's directory, in that
\* order; then <container dir>/<pid> exists and the temporary directory does
\* not.  A failing return carries no process and no pid.
C15_StartOrder ==
  /\ mainLog = SubSeq(StartOrder, 1, Len(mainLog))
  /\ ~startRes.returned => ~startRes.process
  /\ (startRes.returned /\ startRes.err = NoErr) =>
        /\ startRes.process
        /\ mainLog = StartOrder
        /\ tool.pc = "exited"
        /\ toolPlan.exitOk
        /\ startRes.pid = tool.pid
        /\ startRes.pid \in Pids
        /\ containerDir.exists
        /\ Itoa(startRes.pid) \in containerDir.entries
        /\ ~tempDir.exists
  /\ (startRes.returned /\ startRes.err # NoErr) =>
        /\ ~startRes.process
        /\ startRes.pid = 0
        /\ mainLog # StartOrder

\* A started process: exec has returned it.
C15_Witness ==
  /\ op = "exec"
  /\ startRes.returned
  /\ startRes.process
  /\ Itoa(startRes.pid) \in containerDir.entries

\* C16: a console-socket session is one-shot: getMasterFromSocket accepts at
\* most one connection and reads at most one message; what it returns is at
\* most one descriptor, the only one of the only control message; and a
\* connection it has accepted is open only while it runs: it is closed when
\* getMasterFromSocket has returned, with or without an error.
C16_OneShot ==
  /\ recv.accepts <= 1
  /\ recv.reads <= recv.accepts
  /\ wire.conn = "accepted" => recv.pc = "read"
  /\ sockRes.called =>
        /\ recv.pc = "done"
        /\ recv.accepts = 1 => wire.conn = "closed"
        /\ sockRes.file.valid =>
              /\ Len(sockIn.msgs) = 1
              /\ Len(sockIn.msgs[1].fds) = 1
              /\ sockRes.file.fd = sockIn.msgs[1].fds[1]

\* A receive that accepted a connection, read a message that breaks the
\* protocol, and returned its error with the connection closed.
C16_Witness ==
  /\ sockRes.called
  /\ sockRes.err \in {ErrInvalidBytes, ErrNoControl, ErrManyFds}
  /\ recv.accepts = 1
  /\ recv.reads = 1
  /\ wire.conn = "closed"

\* The error startProcess returns once the command is made, as the tool's
\* invocation, the pid file and the rename alone decide it.
ErrorOfInvocation ==
  IF toolPlan.startFails THEN ErrCmdStart
  ELSE IF ~toolPlan.exitOk THEN ErrCmdWait
  ELSE IF ~toolPlan.spawns THEN ErrReadPid
  ELSE IF ~Renamed THEN ErrRename
  ELSE NoErr

\* C17: what startProcess returns is decided by its own steps alone, whether
\* the receive in the background has succeeded, failed or still stands in
\* Accept; the error of the receive is logged by the goroutine and nothing
\* else; the receive leaves Accept only through a connection, never through
\* a timeout; and startProcess returns once the tool was started, without
\* waiting for the goroutine.
C17_ReceiveNotPropagated ==
  /\ [](startRes.returned =>
          \/ startRes.err \in {ErrSubreaper, ErrConsoleSocket, ErrSetupIO}
          \/ startRes.err = ErrorOfInvocation)
  /\ [](sockRes.called => recv.logged = sockRes.err)
  /\ [](recv.pc \in {"read", "done"} => wire.conn # "none")
  /\ (tool.pc = "running") ~> startRes.returned

\* startProcess has returned a process while the goroutine stands in Accept
\* for a tool that has exited and never connected.
C17_Witness ==
  /\ startRes.returned
  /\ startRes.process
  /\ tool.pc = "exited"
  /\ recv.pc = "accept"
  /\ wire.conn = "none"

\* The errors of a message that breaks the protocol of the console socket.
ProtocolViolations ==
  {ErrInvalidBytes, ErrNoControl, ErrManyControl, ErrNoFds, ErrManyFds}

\* The receive of the call has returned a protocol violation.
ProtocolViolated == sockRes.called /\ sockRes.err \in ProtocolViolations

Quiescent ==
  /\ startRes.returned
  /\ tool.pc \in {"notStarted", "exited"}
  /\ ~(recv.pc = "accept" /\ wire.conn = "pending")
  /\ ~(recv.pc = "read" /\ wire.sent)

\* The file process.json of an exec is closed when runExecCommand returns.
ProcessJsonClosed == (op = "exec" /\ opRes.returned) => ~jsonOpen

\* Once nothing can act any more, the listener of the console socket is
\* closed and no goroutine stands in Accept or in the read on it.
ListenerReleased ==
  Quiescent => listener # "listening" /\ recv.pc \notin {"accept", "read"}

\* C19: for a process with a terminal, once startProcess has returned (also
\* with an error, the tool never having connected) and nothing can act any
\* more, the listener of the console socket is closed and no goroutine is
\* blocked on it; for an exec, the file process.json is closed when
\* runExecCommand returns.
C19_ResourcesReleased == ProcessJsonClosed /\ ListenerReleased

\* --------------------------------------------- claims: the temporary directory

\* A view was returned while the process of the call was started and its
\* directory not yet renamed: it holds the pid the tool has just started.
QueriedWhilePending(view) ==
  /\ view.called
  /\ tempDir.exists
  /\ ~Renamed
  /\ tool.pid \in PidsOf(view.procs)

\* C21: the temporary process directory of a create or exec in flight is
\* never an entry of the container's directory that the queries scan: no
\* view a query returned beside the call has read its name, and none failed
\* with the error of a name that is not a pid.
C21_TempDirNotScanned ==
  /\ TempName(containerId) \notin containerDir.entries
  /\ \A view \in {runningView, allView} :
        view.called =>
           /\ TempName(containerId) \notin view.dir.entries
           /\ view.err # ErrParsePid

\* Both queries returned a view without error while the temporary directory
\* of an exec was there and not yet renamed.
C21_Witness ==
  /\ op = "exec"
  /\ QueriedWhilePending(runningView)
  /\ QueriedWhilePending(allView)
  /\ runningView.err = NoErr
  /\ allView.err = NoErr

\* ------------------------------------------ claims: Wait after a failed query

\* The errors of GetAllProcesses: "runc ps" failed, the container's
\* directory cannot be read, a name in it is not a pid, a command line cannot
\* be read.
QueryErrors == {ErrPs, ErrReadDir, ErrParsePid, ErrCmdline}

\* C22: container.Wait waits on the init process only when GetAllProcesses
\* has succeeded; when it fails, Wait returns that error and no exit state,
\* having waited on no process, init included.
C22_NoWaitAfterFailedQuery ==
  waitRes.called =>
     /\ allView.called
     /\ allView.err \in QueryErrors \cup {NoErr}
     /\ waitLog # <<>> => allView.err = NoErr
     /\ allView.err # NoErr =>
           /\ waitLog = <<>>
           /\ waitRes.err = allView.err
           /\ waitRes.state = NilExitState

\* A Wait that returned the error of a command-line lookup without waiting,
\* on a container whose init process could have been waited on.
C22_Witness ==
  /\ waitRes.called
  /\ waitRes.err = ErrCmdline
  /\ waitLog = <<>>
  /\ initPid \notin waitFail

====
